---- MODULE Spec2Model ----
(***************************************************************************)
(* Model of the Carta connector's paginated listing protocol:              *)
(*   pkg/carta/client.go      - the four fetch operations and doRequest    *)
(*   pkg/connector/*.go       - the List operation of each resource type   *)
(* The remote service is the environment: every network round trip draws   *)
(* its raw HTTP outcome from a bounded set.                                *)
(***************************************************************************)
EXTENDS Integers, Sequences, FiniteSets, TLC

VARIABLES
    pc,        \* "idle": no call in progress; "drain": GetPortfolios is inside its issuer loops;
               \* "done": List has returned and the caller has not yet looked at the result
    call,      \* the List call in progress or just returned: [rtype, token, after]
    page,      \* portfolioResponse.Portfolios (client.go:99), mutated in place
    outerNext, \* portfolioResponse.Next
    idx,       \* 1-based position of the range loop of client.go:113
    issuers,   \* local `issuers` of client.go:114
    next,      \* local `next` of client.go:115
    log,       \* history of the call: requests sent and issuer-field assignments, in order
    ret,       \* what the client fetch operation returned: [items, next, err]
    listRet,   \* what List returned: [resources, token, err]
    fault,     \* what List met after the fetch (see Faults)
    pending,   \* the caller's listing loop: [rtype, token] to continue with, rtype "none" if no pass is open
    qin,       \* input of setupPaginationQuery under QuerySpec: [query, size, after]
    qout,      \* its result: [done, query]
    gr         \* a Grants call under GrantsSpec: the portfolio, where the call is, what it
               \* looked up and what it has built

vars == <<pc, call, page, outerNext, idx, issuers, next, log, ret, listRet, fault, pending, qin, qout, gr>>

(***************************************************************************)
(* Bounds                                                                  *)
(***************************************************************************)
MaxPortfolios == 2   \* portfolios in one outer page
MaxPageLen == 2      \* items in a full page of issuers / investor firms
MaxFetches == 3      \* nested issuer fetches the model follows within one GetPortfolios call
MaxSize == 12        \* page sizes tried on setupPaginationQuery: -MaxSize..MaxSize and the two the code uses
MaxGrantIssuers == 3 \* issuers of the portfolio whose grants are made

(***************************************************************************)
(* Program constants                                                       *)
(***************************************************************************)
InnerPageSize == 100
ResourcesPageSize == 50
ErrorStatus == 300

Cursors == {"", "c1", "c2"}
Statuses == {200, 300, 404}
\* Portfolio.Issuers has no json tag, so a response may fill it already.
StaleIssuers == <<0>>

(***************************************************************************)
(* Errors.  NoErr is Go's nil error.                                       *)
(***************************************************************************)
Err(kind, code) == [kind |-> kind, code |-> code]
NoErr == Err("nil", 0)

(***************************************************************************)
(* strconv.Itoa: decimal digits, most significant first, "-" for negatives *)
(***************************************************************************)
Digits == <<"0", "1", "2", "3", "4", "5", "6", "7", "8", "9">>

RECURSIVE UItoa(_)
UItoa(n) == IF n < 10 THEN <<Digits[n + 1]>>
            ELSE Append(UItoa(n \div 10), Digits[(n % 10) + 1])

Itoa(n) == IF n < 0 THEN <<"-">> \o UItoa(0 - n) ELSE UItoa(n)

(***************************************************************************)
(* url.Values is a map from key to the list of its values; Add appends.    *)
(***************************************************************************)
EmptyValues == [k \in {} |-> <<>>]

Add(query, key, value) ==
    [k \in DOMAIN query \cup {key} |->
        IF k = key
        THEN (IF key \in DOMAIN query THEN Append(query[key], value) ELSE <<value>>)
        ELSE query[k]]

\* Variant: only a positive size is sent.
setupPaginationQuery_PositiveOnly(query, size, after) ==
    LET q1 == IF size > 0 THEN Add(query, "pageSize", Itoa(size)) ELSE query
    IN  IF after # "" THEN Add(q1, "pageToken", after) ELSE q1

setupPaginationQuery(query, size, after) ==
    LET q1 == IF size # 0 THEN Add(query, "pageSize", Itoa(size)) ELSE query
    IN  IF after # "" THEN Add(q1, "pageToken", after) ELSE q1

(***************************************************************************)
(* The raw outcome of httpClient.Do: a transport error, or a response with *)
(* a status and a body that either decodes into the envelope or does not.  *)
(***************************************************************************)
Prefix(n) == [k \in 1..n |-> k]

\* A page of issuers or investor firms: empty, full, or one short of full.
IssuerPages == {Prefix(n) : n \in {0, MaxPageLen - 1, MaxPageLen}}

\* (Here every other portfolio of a response does.)
PortfolioPage(n) ==
    [k \in 1..n |-> [Id |-> k, Issuers |-> IF k % 2 = 1 THEN StaleIssuers ELSE <<>>]]

PortfolioPages == {PortfolioPage(n) : n \in 0..MaxPortfolios}

NetErr == [neterr |-> TRUE, status |-> 0, decodable |-> FALSE, items |-> <<>>, next |-> ""]

Responses(pages) ==
    {NetErr}
    \cup [neterr : {FALSE}, status : {200}, decodable : {FALSE}, items : {<<>>}, next : {""}]
    \cup [neterr : {FALSE}, status : {200}, decodable : {TRUE}, items : pages, next : Cursors]
    \cup [neterr : {FALSE}, status : Statuses \ {200}, decodable : {TRUE},
          items : {p \in pages : Len(p) = 1}, next : {"c1"}]

(***************************************************************************)
(* doRequest (client.go:197-226), given the outcome of httpClient.Do.      *)
(* `decoded` records whether the body was handed to the JSON decoder;      *)
(* `out` is what the caller finds in its response struct afterwards.       *)
(***************************************************************************)
ZeroValue == [items |-> <<>>, next |-> ""]

\* Variant: the status test is strict, so 300 itself is decoded.
doRequest_StrictStatus(resp) ==
    IF resp.neterr
    THEN [err |-> Err("transport", 0), decoded |-> FALSE, out |-> ZeroValue]
    ELSE IF resp.status > ErrorStatus
    THEN [err |-> Err("status", resp.status), decoded |-> FALSE, out |-> ZeroValue]
    ELSE IF ~resp.decodable
    THEN [err |-> Err("decode", 0), decoded |-> TRUE, out |-> ZeroValue]
    ELSE [err |-> NoErr, decoded |-> TRUE, out |-> [items |-> resp.items, next |-> resp.next]]

doRequest(resp) ==
    IF resp.neterr
    THEN [err |-> Err("transport", 0), decoded |-> FALSE, out |-> ZeroValue]
    ELSE IF resp.status >= ErrorStatus
    THEN [err |-> Err("status", resp.status), decoded |-> FALSE, out |-> ZeroValue]
    ELSE IF ~resp.decodable
    THEN [err |-> Err("decode", 0), decoded |-> TRUE, out |-> ZeroValue]
    ELSE [err |-> NoErr, decoded |-> TRUE, out |-> [items |-> resp.items, next |-> resp.next]]

(***************************************************************************)
(* The single-collection fetch operations, given their parameters and the  *)
(* outcome of their one round trip.                                        *)
(***************************************************************************)
Result(items, nxt, err) == [items |-> items, next |-> nxt, err |-> err]

GetIssuers(params, resp) ==
    LET r == doRequest(resp)
    IN  IF r.err # NoErr THEN Result(<<>>, "", r.err)
        ELSE IF params.After # r.out.next /\ r.out.next # ""
        THEN Result(r.out.items, r.out.next, NoErr)
        ELSE Result(r.out.items, "", NoErr)

\* Variant: an echoed cursor is reported as an error.
GetInvestors_EchoFails(params, resp) ==
    LET r == doRequest(resp)
    IN  IF r.err # NoErr THEN Result(<<>>, "", r.err)
        ELSE IF r.out.next = "" THEN Result(r.out.items, "", NoErr)
        ELSE IF params.After # r.out.next THEN Result(r.out.items, r.out.next, NoErr)
        ELSE Result(<<>>, "", Err("loop", 0))

GetInvestors(params, resp) ==
    LET r == doRequest(resp)
    IN  IF r.err # NoErr THEN Result(<<>>, "", r.err)
        ELSE IF params.After # r.out.next /\ r.out.next # ""
        THEN Result(r.out.items, r.out.next, NoErr)
        ELSE Result(r.out.items, "", NoErr)

\* Variant: the nested fetch passes the service's cursor on unguarded.
GetIssuersForPortfolio_Unguarded(portfolioId, params, resp) ==
    LET r == doRequest(resp)
    IN  IF r.err # NoErr THEN Result(<<>>, "", r.err)
        ELSE Result(r.out.items, r.out.next, NoErr)

GetIssuersForPortfolio(portfolioId, params, resp) ==
    LET r == doRequest(resp)
    IN  IF r.err # NoErr THEN Result(<<>>, "", r.err)
        ELSE IF params.After # r.out.next /\ r.out.next # ""
        THEN Result(r.out.items, r.out.next, NoErr)
        ELSE Result(r.out.items, "", NoErr)

\* Variant: the outer cursor is passed on unguarded.
GetPortfoliosReturn_Unguarded(params, portfolios, respNext) ==
    Result(portfolios, respNext, NoErr)

\* The return statements of GetPortfolios after the range loop (client.go:141-146).
GetPortfoliosReturn(params, portfolios, respNext) ==
    IF params.After # respNext /\ respNext # ""
    THEN Result(portfolios, respNext, NoErr)
    ELSE Result(portfolios, "", NoErr)

Params(size, after) == [Size |-> size, After |-> after]

\* One entry of the history per request sent: what was asked, the raw
\* outcome, whether doRequest decoded the body, and what the operation that
\* sent it got back (for the outer request of GetPortfolios: what doRequest
\* left in portfolioResponse, and its error).
Request(url, pid, params, resp, result) ==
    [ev |-> "req", url |-> url, pid |-> pid, size |-> params.Size, after |-> params.After,
     query |-> setupPaginationQuery(EmptyValues, params.Size, params.After), resp |-> resp,
     decoded |-> doRequest(resp).decoded, result |-> result]

Assignment(pid) == [ev |-> "assign", pid |-> pid]

(***************************************************************************)
(* Page tokens of the List interface.  A token is opaque to the caller: it *)
(* is empty, or it encodes the resource type and the service cursor of the *)
(* pagination bag; anything else does not parse.                           *)
(***************************************************************************)
Token(rtype, cursor) == [rtype |-> rtype, cursor |-> cursor]
EmptyToken == Token("", "")
GarbageToken == Token("?", "?")

\* parsePageToken: the bag decoded from the token, with the resource type
\* pushed as its current state when the token was empty.
parsePageToken(token, rtype) ==
    IF token = GarbageToken THEN [err |-> Err("parse", 0), bag |-> Token(rtype, "")]
    ELSE IF token = EmptyToken THEN [err |-> NoErr, bag |-> Token(rtype, "")]
    ELSE [err |-> NoErr, bag |-> token]

\* bag.PageToken()
PageToken(bag) == bag.cursor

\* bag.NextToken(nextToken): an empty cursor pops the bag's only state and
\* the empty bag marshals to the empty token.
NextToken(bag, nextToken) ==
    IF nextToken = "" THEN EmptyToken ELSE Token(bag.rtype, nextToken)

(***************************************************************************)
(* Strings are sequences of characters.  strings.Join puts the separator   *)
(* between the elements; strings.Split cuts at every separator and so      *)
(* returns one more piece than there are separators - one empty piece for  *)
(* the empty string.                                                       *)
(***************************************************************************)
RECURSIVE Join(_, _)
Join(elems, sep) ==
    IF elems = <<>> THEN <<>>
    ELSE IF Len(elems) = 1 THEN elems[1]
    ELSE elems[1] \o <<sep>> \o Join(Tail(elems), sep)

RECURSIVE Split(_, _)
Split(str, sep) ==
    IF str = <<>> THEN <<(<<>>)>>
    ELSE LET rest == Split(Tail(str), sep)
         IN  IF Head(str) = sep THEN <<(<<>>)>> \o rest
             ELSE <<(<<Head(str)>> \o rest[1])>> \o Tail(rest)

(***************************************************************************)
(* Resources.  An issuer is known by its number; its Id is the number      *)
(* written in decimal.                                                     *)
(***************************************************************************)
mapIssuerIds(issuerList) == [k \in 1..Len(issuerList) |-> Itoa(issuerList[k])]

issuerResource(issuer) == [rtype |-> "issuer", id |-> issuer, issuer_ids |-> <<>>]

investorResource(investor) == [rtype |-> "investor", id |-> investor, issuer_ids |-> <<>>]

portfolioResource(portfolio) ==
    [rtype |-> "portfolio", id |-> portfolio.Id,
     issuer_ids |-> Join(mapIssuerIds(portfolio.Issuers), ",")]

Resource(rtype, item) ==
    CASE rtype = "issuer" -> issuerResource(item)
      [] rtype = "investor" -> investorResource(item)
      [] rtype = "portfolio" -> portfolioResource(item)

ListResult(resources, token, err) == [resources |-> resources, token |-> token, err |-> err]

\* What a List call whose fetch returned r may meet after it: NextToken
\* failing (-1), or the construction of the k-th resource failing (k); 0 is
\* neither.
Faults(r) == IF r.err # NoErr THEN {0} ELSE (-1)..Len(r.items)

\* The part of List before the fetch: a token that does not parse.
ListParseError(err) == ListResult(<<>>, EmptyToken, err)

\* Variant: a resource that cannot be built ends List with the resources
\* built before it.
ListTail_Partial(rtype, bag, r, f) ==
    IF r.err # NoErr THEN ListResult(<<>>, EmptyToken, Err("list", r.err.code))
    ELSE IF f = -1 THEN ListResult(<<>>, EmptyToken, Err("token", 0))
    ELSE IF f \in 1..Len(r.items)
    THEN ListResult([k \in 1..(f - 1) |-> Resource(rtype, r.items[k])], EmptyToken,
                    Err("resource", f))
    ELSE ListResult([k \in 1..Len(r.items) |-> Resource(rtype, r.items[k])],
                    NextToken(bag, r.next), NoErr)

\* The part of List after the fetch returned r (the same in the three
\* resource types but for the resource constructor).
ListTail(rtype, bag, r, f) ==
    IF r.err # NoErr THEN ListResult(<<>>, EmptyToken, Err("list", r.err.code))
    ELSE IF f = -1 THEN ListResult(<<>>, EmptyToken, Err("token", 0))
    ELSE IF f \in 1..Len(r.items) THEN ListResult(<<>>, EmptyToken, Err("resource", f))
    ELSE ListResult([k \in 1..Len(r.items) |-> Resource(rtype, r.items[k])],
                    NextToken(bag, r.next), NoErr)

(***************************************************************************)
(* The caller's listing loop: a pass over one resource type starts with a  *)
(* token of the caller's and feeds each returned token to the next List    *)
(* call until List fails or returns the empty token.                       *)
(***************************************************************************)
NoPass == Token("none", "")

StartTokens == {EmptyToken, GarbageToken}

TokensFor(rtype) ==
    IF pending = NoPass THEN StartTokens
    ELSE IF pending.rtype = rtype THEN {pending} ELSE {}

Continue(lr) == IF lr.err # NoErr \/ lr.token = EmptyToken THEN NoPass ELSE lr.token

NotCalled == Result(<<>>, "", Err("notcalled", 0))

(***************************************************************************)
(* The body of GetPortfolios' loops                                        *)
(***************************************************************************)
\* Variant: each page replaces what was accumulated.
AppendIssuers_Overwrite(acc, issuersForPortfolio) == issuersForPortfolio

\* Variant: each page is put in front of what was accumulated.
AppendIssuers_Prepend(acc, issuersForPortfolio) == issuersForPortfolio \o acc

\* client.go:129
AppendIssuers(acc, issuersForPortfolio) == acc \o issuersForPortfolio

\* Variant: the drain stops after its first page.
DrainDone_FirstPage(nextToken) == TRUE

\* client.go:131
DrainDone(nextToken) == nextToken = ""

\* Variant: `next` lives outside the range loop and keeps the cursor the
\* previous drain asked its last page with.
StartCursor_Carried(previous) == previous

\* client.go:115: `next` is declared inside the range loop, so each
\* portfolio's drain starts from the zero value whatever the last one used.
StartCursor(previous) == ""

\* client.go:138
AssignIssuers(portfolios, i, acc) == [portfolios EXCEPT ![i].Issuers = acc]

\* Variant: the error is lost on the way out (a shadowed err).
FetchError_Shadowed(err) == Result(<<>>, "", NoErr)

\* client.go:125-127 and 108-110
FetchError(err) == Result(<<>>, "", err)

InnerRequests(l) == {k \in 1..Len(l) : l[k].ev = "req" /\ l[k].url = "portfolio_issuers"}

(***************************************************************************)
(* Initial state                                                           *)
(***************************************************************************)
NoCall == [rtype |-> "none", token |-> EmptyToken, after |-> ""]
NoGrants ==
    [pc |-> "none", portfolio |-> [Id |-> 0, Issuers |-> <<>>], ids |-> <<>>, pos |-> 0,
     lookups |-> <<>>, grants |-> <<>>, err |-> NoErr]
NoQuery == [query |-> EmptyValues, size |-> 0, after |-> ""]

Idle ==
    /\ pc = "idle"
    /\ page = <<>>
    /\ outerNext = ""
    /\ idx = 0
    /\ issuers = <<>>
    /\ next = ""

Init ==
    /\ Idle
    /\ call = NoCall
    /\ log = <<>>
    /\ ret = NotCalled
    /\ listRet = ListResult(<<>>, EmptyToken, NoErr)
    /\ fault = 0
    /\ pending = NoPass
    /\ qin = NoQuery
    /\ qout = [done |-> FALSE, query |-> EmptyValues]
    /\ gr = NoGrants

\* The call returns: the locals of GetPortfolios go out of scope.
Return(r, lr, f) ==
    /\ pc' = "done"
    /\ page' = <<>>
    /\ outerNext' = ""
    /\ idx' = 0
    /\ issuers' = <<>>
    /\ next' = ""
    /\ ret' = r
    /\ listRet' = lr
    /\ fault' = f
    /\ UNCHANGED pending

(***************************************************************************)
(* List of issuers and of investor firms: one fetch, one step.             *)
(***************************************************************************)
ListIssuers ==
    /\ pc = "idle"
    /\ \E token \in TokensFor("issuer") :
         LET p == parsePageToken(token, "issuer")
             params == Params(ResourcesPageSize, PageToken(p.bag))
         IN  /\ call' = [rtype |-> "issuer", token |-> token, after |-> params.After]
             /\ IF p.err # NoErr
                THEN /\ log' = <<>>
                     /\ Return(NotCalled, ListParseError(p.err), 0)
                ELSE \E resp \in Responses(IssuerPages) :
                       LET r == GetIssuers(params, resp)
                       IN  /\ log' = <<Request("issuers", 0, params, resp, r)>>
                           /\ \E f \in Faults(r) :
                                Return(r, ListTail("issuer", p.bag, r, f), f)
    /\ UNCHANGED <<qin, qout, gr>>

\* Variant: a round trip that fails is tried once more.
ListInvestors_Retry ==
    /\ pc = "idle"
    /\ \E token \in TokensFor("investor") :
         LET p == parsePageToken(token, "investor")
             params == Params(ResourcesPageSize, PageToken(p.bag))
         IN  /\ call' = [rtype |-> "investor", token |-> token, after |-> params.After]
             /\ IF p.err # NoErr
                THEN /\ log' = <<>>
                     /\ Return(NotCalled, ListParseError(p.err), 0)
                ELSE \E first \in Responses(IssuerPages), second \in Responses(IssuerPages) :
                       LET r1 == GetInvestors(params, first)
                           r2 == GetInvestors(params, second)
                       IN  IF r1.err = NoErr
                           THEN /\ log' = <<Request("investors", 0, params, first, r1)>>
                                /\ \E f \in Faults(r1) :
                                     Return(r1, ListTail("investor", p.bag, r1, f), f)
                           ELSE /\ log' = <<Request("investors", 0, params, first, r1),
                                            Request("investors", 0, params, second, r2)>>
                                /\ \E f \in Faults(r2) :
                                     Return(r2, ListTail("investor", p.bag, r2, f), f)
    /\ UNCHANGED <<qin, qout, gr>>

ListInvestors ==
    /\ pc = "idle"
    /\ \E token \in TokensFor("investor") :
         LET p == parsePageToken(token, "investor")
             params == Params(ResourcesPageSize, PageToken(p.bag))
         IN  /\ call' = [rtype |-> "investor", token |-> token, after |-> params.After]
             /\ IF p.err # NoErr
                THEN /\ log' = <<>>
                     /\ Return(NotCalled, ListParseError(p.err), 0)
                ELSE \E resp \in Responses(IssuerPages) :
                       LET r == GetInvestors(params, resp)
                       IN  /\ log' = <<Request("investors", 0, params, resp, r)>>
                           /\ \E f \in Faults(r) :
                                Return(r, ListTail("investor", p.bag, r, f), f)
    /\ UNCHANGED <<qin, qout, gr>>

(***************************************************************************)
(* List of portfolios.  ListPortfolios runs List up to and including the   *)
(* outer fetch of GetPortfolios; each DrainFetch is one nested fetch with  *)
(* everything the code does until the next one (or until List returns).    *)
(***************************************************************************)
ListPortfolios ==
    /\ pc = "idle"
    /\ \E token \in TokensFor("portfolio") :
         LET p == parsePageToken(token, "portfolio")
             params == Params(ResourcesPageSize, PageToken(p.bag))
         IN  /\ call' = [rtype |-> "portfolio", token |-> token, after |-> params.After]
             /\ IF p.err # NoErr
                THEN /\ log' = <<>>
                     /\ Return(NotCalled, ListParseError(p.err), 0)
                ELSE \E resp \in Responses(PortfolioPages) :
                       LET d == doRequest(resp)
                       IN  /\ log' = <<Request("portfolios", 0, params, resp,
                                               Result(d.out.items, d.out.next, d.err))>>
                           /\ IF d.err # NoErr
                              THEN Return(FetchError(d.err),
                                          ListTail("portfolio", p.bag, FetchError(d.err), 0), 0)
                              ELSE IF Len(d.out.items) = 0
                              THEN LET r == GetPortfoliosReturn(params, d.out.items, d.out.next)
                                   IN  \E f \in Faults(r) :
                                         Return(r, ListTail("portfolio", p.bag, r, f), f)
                              ELSE /\ pc' = "drain"
                                   /\ page' = d.out.items
                                   /\ outerNext' = d.out.next
                                   /\ idx' = 1
                                   /\ issuers' = <<>>
                                   /\ next' = ""
                                   /\ UNCHANGED <<ret, listRet, fault, pending>>
    /\ UNCHANGED <<qin, qout, gr>>

\* The log after one more entry: the whole history, or (whole = FALSE) only the outer
\* request and the latest nested request, which is all that a call of any length can
\* keep in finitely many states.
Logged(l, e, whole) ==
    IF whole THEN Append(l, e)
    ELSE IF e.ev = "req" THEN <<l[1], e>>
    ELSE l

DrainStep(pages, whole) ==
    /\ pc = "drain"
    /\ \E resp \in Responses(pages) :
         LET inner == Params(InnerPageSize, next)
             r == GetIssuersForPortfolio(page[idx].Id, inner, resp)
             sent == Logged(log, Request("portfolio_issuers", page[idx].Id, inner, resp, r), whole)
             acc == AppendIssuers(issuers, r.items)
             bag == parsePageToken(call.token, "portfolio").bag
             outer == Params(ResourcesPageSize, call.after)
         IN  IF r.err # NoErr
             THEN /\ log' = sent
                  /\ Return(FetchError(r.err), ListTail("portfolio", bag, FetchError(r.err), 0), 0)
             ELSE IF ~DrainDone(r.next)
             THEN /\ log' = sent
                  /\ issuers' = acc
                  /\ next' = r.next
                  /\ UNCHANGED <<pc, page, outerNext, idx, ret, listRet, fault, pending>>
             ELSE LET assigned == AssignIssuers(page, idx, acc)
                  IN  /\ log' = Logged(sent, Assignment(page[idx].Id), whole)
                      /\ IF idx < Len(page)
                         THEN /\ page' = assigned
                              /\ idx' = idx + 1
                              /\ issuers' = <<>>
                              /\ next' = StartCursor(next)
                              /\ UNCHANGED <<pc, outerNext, ret, listRet, fault, pending>>
                         ELSE LET g == GetPortfoliosReturn(outer, assigned, outerNext)
                              IN  \E f \in Faults(g) :
                                    Return(g, ListTail("portfolio", bag, g, f), f)
    /\ UNCHANGED <<call, qin, qout, gr>>

DrainFetch ==
    /\ Cardinality(InnerRequests(log)) < MaxFetches
    /\ DrainStep(IssuerPages, TRUE)

\* One nested fetch of a call that may make any number of them; the pages carry no
\* issuers, so that only the cursors decide how long the call runs.
DrainForever == DrainStep({<<>>}, FALSE)

(***************************************************************************)
(* The caller takes List's result: it goes on with the returned token, or  *)
(* closes the pass on an error or on the empty token.                      *)
(***************************************************************************)
Consume ==
    /\ pc = "done"
    /\ pc' = "idle"
    /\ pending' = Continue(listRet)
    /\ call' = NoCall
    /\ log' = <<>>
    /\ ret' = NotCalled
    /\ listRet' = ListResult(<<>>, EmptyToken, NoErr)
    /\ fault' = 0
    /\ UNCHANGED <<page, outerNext, idx, issuers, next, qin, qout, gr>>

Next == ListIssuers \/ ListInvestors \/ ListPortfolios \/ DrainFetch \/ Consume

Spec == Init /\ [][Next]_vars

(***************************************************************************)
(* setupPaginationQuery on its own: the inputs its callers can pass (they   *)
(* always start from an empty url.Values) and one application.             *)
(***************************************************************************)
Sizes == ((0 - MaxSize)..MaxSize) \cup {ResourcesPageSize, InnerPageSize}

QueryInit ==
    /\ Idle
    /\ call = NoCall
    /\ log = <<>>
    /\ ret = NotCalled
    /\ listRet = ListResult(<<>>, EmptyToken, NoErr)
    /\ fault = 0
    /\ pending = NoPass
    /\ qin \in [query : {EmptyValues}, size : Sizes, after : Cursors]
    /\ qout = [done |-> FALSE, query |-> EmptyValues]
    /\ gr = NoGrants

BuildQuery ==
    /\ ~qout.done
    /\ qout' = [done |-> TRUE, query |-> setupPaginationQuery(qin.query, qin.size, qin.after)]
    /\ UNCHANGED <<pc, call, page, outerNext, idx, issuers, next, log, ret, listRet, fault,
                   pending, qin, gr>>

QueryNext == BuildQuery

QuerySpec == QueryInit /\ [][QueryNext]_vars

(***************************************************************************)
(* GetPortfolios without a bound on its nested fetches.  The loop at       *)
(* client.go:118-136 is sequential code: once a request is answered the    *)
(* next step is taken, which is weak fairness of DrainForever.  That every *)
(* request is answered is built into the step (a response or a network     *)
(* error is always drawn).                                                 *)
(***************************************************************************)
LiveNext == ListPortfolios \/ DrainForever \/ Consume

LiveSpec == Init /\ [][LiveNext]_vars /\ WF_vars(DrainForever)

(***************************************************************************)
(* Grants of a portfolio resource (portfolio.go:106-144), on the resource  *)
(* portfolioResource built from an aggregated portfolio.  GrantsSplit is   *)
(* the call up to its loop, GrantsLookup one turn of the loop: one         *)
(* GetIssuer round trip and the grant made of its answer.                  *)
(***************************************************************************)
\* Issuer numbers a portfolio may list: those of a page, and one of two digits.
GrantIssuers == (1..MaxPageLen) \cup {10 * MaxPageLen}

RECURSIVE ListsUpTo(_, _)
ListsUpTo(S, n) ==
    IF n = 0 THEN {<<>>}
    ELSE LET shorter == ListsUpTo(S, n - 1)
         IN  shorter \cup {Append(l, x) : l \in {m \in shorter : Len(m) = n - 1}, x \in S}

\* GetIssuer(ctx, id): the issuer the service has under that id, or an error.
GetIssuer(id, found) ==
    IF found THEN [issuer |-> id, err |-> NoErr] ELSE [issuer |-> <<>>, err |-> Err("lookup", 0)]

\* grant.NewGrant(resource, memberEntitlement, ir.Id)
NewGrant(resource, entitlement, principal) ==
    [resource |-> resource.id, entitlement |-> entitlement, principal |-> principal]

GrantsInit ==
    /\ Idle
    /\ call = NoCall
    /\ log = <<>>
    /\ ret = NotCalled
    /\ listRet = ListResult(<<>>, EmptyToken, NoErr)
    /\ fault = 0
    /\ pending = NoPass
    /\ qin = NoQuery
    /\ qout = [done |-> FALSE, query |-> EmptyValues]
    /\ \E list \in ListsUpTo(GrantIssuers, MaxGrantIssuers) :
         gr = [NoGrants EXCEPT !.pc = "listed", !.portfolio = [Id |-> 1, Issuers |-> list]]

GrantsSplit ==
    /\ gr.pc = "listed"
    /\ LET resource == portfolioResource(gr.portfolio)
           issuerIds == Split(resource.issuer_ids, ",")
       IN  gr' = [gr EXCEPT !.ids = issuerIds,
                            !.pos = 1,
                            !.pc = IF Len(issuerIds) = 0 THEN "done" ELSE "loop"]
    /\ UNCHANGED <<pc, call, page, outerNext, idx, issuers, next, log, ret, listRet, fault,
                   pending, qin, qout>>

GrantsLookup ==
    /\ gr.pc = "loop"
    /\ \E found \in BOOLEAN :
         LET id == gr.ids[gr.pos]
             g == GetIssuer(id, found)
             resource == portfolioResource(gr.portfolio)
         IN  IF g.err # NoErr
             THEN gr' = [gr EXCEPT !.lookups = Append(@, id), !.grants = <<>>,
                                  !.err = g.err, !.pc = "done"]
             ELSE gr' = [gr EXCEPT !.lookups = Append(@, id),
                                  !.grants = Append(@, NewGrant(resource, "member",
                                                                issuerResource(g.issuer).id)),
                                  !.pos = @ + 1,
                                  !.pc = IF gr.pos = Len(gr.ids) THEN "done" ELSE "loop"]
    /\ UNCHANGED <<pc, call, page, outerNext, idx, issuers, next, log, ret, listRet, fault,
                   pending, qin, qout>>

GrantsNext == GrantsSplit \/ GrantsLookup

GrantsSpec == GrantsInit /\ [][GrantsNext]_vars

TypeOK ==
    /\ pc \in {"idle", "drain", "done"}
    /\ idx \in 0..MaxPortfolios
    /\ next \in Cursors

(***************************************************************************)
(* Vocabulary of the properties, read off the history alone.               *)
(***************************************************************************)
RequestsIn(l) == {k \in 1..Len(l) : l[k].ev = "req"}

\* The requests GetIssuersForPortfolio sent for portfolio pid, in order.
InnerOf(l, pid) ==
    SelectSeq(l, LAMBDA e : e.ev = "req" /\ e.url = "portfolio_issuers" /\ e.pid = pid)

\* The round trip went through: a response below 300 whose body decodes.
Answered(resp) == ~resp.neterr /\ resp.status < 300 /\ resp.decodable

\* The service answered the request with the request's own cursor.
Echo(e) == Answered(e.resp) /\ e.resp.next = e.after

\* The cursor a fetch has to return for request cursor after and response cursor nxt.
GuardedCursor(after, nxt) == IF nxt = "" \/ nxt = after THEN "" ELSE nxt

RECURSIVE Flatten(_)
Flatten(ss) == IF ss = <<>> THEN <<>> ELSE Head(ss) \o Flatten(Tail(ss))

RECURSIVE SumLen(_)
SumLen(ss) == IF ss = <<>> THEN 0 ELSE Len(Head(ss)) + SumLen(Tail(ss))

PortfoliosDone == pc = "done" /\ call.rtype = "portfolio" /\ ret # NotCalled

PortfoliosOk == PortfoliosDone /\ ret.err = NoErr

(***************************************************************************)
(* C1: for each of GetIssuers, GetInvestors, GetIssuersForPortfolio and    *)
(* GetPortfolios, a successful call with request cursor After whose        *)
(* response carried cursor Next returns the empty cursor if Next is empty  *)
(* or equal to After, and exactly Next otherwise.                          *)
(***************************************************************************)
C1_NextCursor ==
    /\ \A k \in RequestsIn(log) :
         (log[k].url # "portfolios" /\ log[k].result.err = NoErr)
            => /\ Answered(log[k].resp)
               /\ log[k].result.next = GuardedCursor(log[k].after, log[k].resp.next)
    /\ (pc = "done" /\ call.rtype \in {"issuer", "investor"} /\ ret # NotCalled /\ ret.err = NoErr)
            => ret.next = GuardedCursor(call.after, log[1].resp.next)
    /\ PortfoliosOk
            => /\ Answered(log[1].resp)
               /\ log[1].after = call.after
               /\ ret.next = GuardedCursor(call.after, log[1].resp.next)

\* GetPortfolios succeeded on a response that echoed a non-empty request
\* cursor, after a nested fetch that passed a fresh cursor on.
C1_Witness ==
    /\ PortfoliosOk
    /\ call.after = "c1"
    /\ log[1].resp.next = "c1"
    /\ ret.next = ""
    /\ \E k \in RequestsIn(log) :
         log[k].url = "portfolio_issuers" /\ log[k].resp.next = "c2" /\ log[k].result.next = "c2"

(***************************************************************************)
(* C2: in every pagination loop that feeds the returned cursor back as the *)
(* next After - the drain of a portfolio's issuers inside GetPortfolios    *)
(* and the caller's listing loop - a response that carries the cursor the  *)
(* request was made with ends the loop at that page.                       *)
(***************************************************************************)
C2_DrainStops ==
    \A k \in RequestsIn(log) :
        (log[k].url = "portfolio_issuers" /\ Echo(log[k]))
           => /\ \A j \in RequestsIn(log) : j > k => log[j].pid # log[k].pid
              /\ pc = "drain" => page[idx].Id # log[k].pid

C2_ListingStops ==
    (pc = "done" /\ ret # NotCalled /\ Echo(log[1]))
       => /\ ret.err = NoErr => ret.next = ""
          /\ listRet.err = NoErr => listRet.token = EmptyToken
          /\ pending' = NoPass

C2_EchoTerminates == [](C2_DrainStops) /\ [][C2_ListingStops]_vars

\* A listing pass that reached a portfolio page by cursor "c1", got "c1"
\* back, and whose drain got its own non-empty cursor "c2" back.
C2_Witness ==
    /\ PortfoliosOk
    /\ call.after = "c1"
    /\ log[1].resp.next = "c1"
    /\ pending # NoPass
    /\ \E k \in RequestsIn(log) :
         log[k].url = "portfolio_issuers" /\ log[k].after = "c2" /\ Echo(log[k])

(***************************************************************************)
(* C3: when GetPortfolios succeeds, the page has the portfolios of the     *)
(* response, and the issuer list of each is the concatenation, in request  *)
(* order, of the pages of its nested collection: the first asked with the  *)
(* empty cursor, each next with the cursor the previous fetch returned,    *)
(* the last being the one whose fetch returned the empty cursor.           *)
(***************************************************************************)
DrainChain(rs) ==
    /\ Len(rs) >= 1
    /\ rs[1].after = ""
    /\ \A j \in 2..Len(rs) : rs[j - 1].result.next # "" /\ rs[j].after = rs[j - 1].result.next
    /\ rs[Len(rs)].result.next = ""

C3_IssuersAreAllPages ==
    PortfoliosOk =>
        /\ Len(ret.items) = Len(log[1].resp.items)
        /\ \A i \in 1..Len(ret.items) :
             LET rs == InnerOf(log, ret.items[i].Id)
             IN  /\ ret.items[i].Id = log[1].resp.items[i].Id
                 /\ DrainChain(rs)
                 /\ ret.items[i].Issuers = Flatten([j \in 1..Len(rs) |-> rs[j].resp.items])

\* A portfolio whose issuers came in two different non-empty pages, in a
\* page of two portfolios, the response having carried issuers of its own.
C3_Witness ==
    /\ PortfoliosOk
    /\ Len(ret.items) = 2
    /\ log[1].resp.items[1].Issuers # <<>>
    /\ \E i \in 1..Len(ret.items) :
         LET rs == InnerOf(log, ret.items[i].Id)
         IN  /\ Len(rs) = 2
             /\ Len(rs[1].resp.items) = 2
             /\ Len(rs[2].resp.items) = 1
             /\ Len(ret.items[i].Issuers) = 3

(***************************************************************************)
(* C4: a nested issuer fetch that fails, for whichever portfolio and page, *)
(* is the last request of the call, and GetPortfolios returns its error    *)
(* with no portfolios and the empty cursor; a page GetPortfolios returns   *)
(* has every portfolio aggregated.                                         *)
(***************************************************************************)
ErrorOf(resp) ==
    IF resp.neterr THEN Err("transport", 0)
    ELSE IF resp.status >= 300 THEN Err("status", resp.status)
    ELSE Err("decode", 0)

AssignmentsOf(l, pid) == {k \in 1..Len(l) : l[k].ev = "assign" /\ l[k].pid = pid}

C4_InnerFailureAborts ==
    /\ \A k \in RequestsIn(log) :
         (log[k].url = "portfolio_issuers" /\ ~Answered(log[k].resp))
            => /\ k = Len(log)
               /\ pc = "done"
               /\ ret = Result(<<>>, "", ErrorOf(log[k].resp))
    /\ (PortfoliosDone /\ ret.items # <<>>)
            => /\ ret.err = NoErr
               /\ \A i \in 1..Len(ret.items) :
                    Cardinality(AssignmentsOf(log, ret.items[i].Id)) = 1

\* The second portfolio's fetch failed after the first was aggregated.
C4_Witness ==
    /\ PortfoliosDone
    /\ AssignmentsOf(log, 1) # {}
    /\ log[Len(log)].ev = "req"
    /\ log[Len(log)].pid = 2
    /\ ~Answered(log[Len(log)].resp)
    /\ ret.err # NoErr

(***************************************************************************)
(* C5: in every fetch operation a response with status >= 300 is the last  *)
(* request of the call; its body is not decoded, and the call returns an   *)
(* error carrying that status, no items and the empty cursor.              *)
(***************************************************************************)
C5_StatusError ==
    \A k \in RequestsIn(log) :
        (~log[k].resp.neterr /\ log[k].resp.status >= 300)
           => /\ ~log[k].decoded
              /\ k = Len(log)
              /\ pc = "done"
              /\ ret = Result(<<>>, "", Err("status", log[k].resp.status))
              /\ log[k].url # "portfolios" => log[k].result = ret

\* Status 300 exactly, with a body that would decode into a full page.
C5_Witness ==
    /\ pc = "done"
    /\ call.rtype = "issuer"
    /\ log # <<>>
    /\ log[1].resp.status = 300
    /\ log[1].resp.decodable
    /\ log[1].resp.items # <<>>
    /\ ret.err = Err("status", 300)

(***************************************************************************)
(* C6: a response that echoes the request's cursor does not fail the call: *)
(* the single-collection fetches return its items as they are, a nil       *)
(* error and the empty cursor; GetPortfolios, when its drains went through,*)
(* returns the portfolios of that response, a nil error and the empty      *)
(* cursor.                                                                 *)
(***************************************************************************)
C6_EchoSucceeds ==
    /\ \A k \in RequestsIn(log) :
         (log[k].url # "portfolios" /\ Echo(log[k]))
            => log[k].result = Result(log[k].resp.items, "", NoErr)
    /\ (pc = "done" /\ call.rtype \in {"issuer", "investor"} /\ ret # NotCalled /\ Echo(log[1]))
            => ret = Result(log[1].resp.items, "", NoErr)
    /\ (PortfoliosDone /\ Echo(log[1])
          /\ \A k \in RequestsIn(log) : Answered(log[k].resp))
            => /\ ret.err = NoErr
               /\ ret.next = ""
               /\ Len(ret.items) = Len(log[1].resp.items)
               /\ \A i \in 1..Len(ret.items) : ret.items[i].Id = log[1].resp.items[i].Id

\* Investor firms asked with "c1", answered with a full page and "c1".
C6_Witness ==
    /\ pc = "done"
    /\ call.rtype = "investor"
    /\ call.after = "c1"
    /\ ret # NotCalled
    /\ Echo(log[1])
    /\ Len(log[1].resp.items) = MaxPageLen
    /\ ret.items = log[1].resp.items

(***************************************************************************)
(* C7: the query built for a page request has the pageSize parameter iff   *)
(* the size is not zero and the pageToken parameter iff the cursor is not  *)
(* empty, each once and with the value given (the size in decimal); size 0 *)
(* and the empty cursor give a query with no parameter.                    *)
(***************************************************************************)
DigitValue(c) == CHOOSE d \in 0..9 : Digits[d + 1] = c

RECURSIVE UAtoi(_)
UAtoi(str) == IF Len(str) = 0 THEN 0
              ELSE 10 * UAtoi(SubSeq(str, 1, Len(str) - 1)) + DigitValue(str[Len(str)])

Atoi(str) == IF str[1] = "-" THEN 0 - UAtoi(Tail(str)) ELSE UAtoi(str)

C7_QueryParameters ==
    qout.done =>
        LET q == qout.query
        IN  /\ DOMAIN q \subseteq {"pageSize", "pageToken"}
            /\ "pageSize" \in DOMAIN q <=> qin.size # 0
            /\ "pageToken" \in DOMAIN q <=> qin.after # ""
            /\ qin.size # 0 => Len(q["pageSize"]) = 1 /\ Atoi(q["pageSize"][1]) = qin.size
            /\ qin.after # "" => q["pageToken"] = <<qin.after>>
            /\ (qin.size = 0 /\ qin.after = "") => q = EmptyValues

\* Size 50 with a cursor: both parameters, "50" written as two digits.
C7_Witness ==
    /\ qout.done
    /\ qin.size = 50
    /\ qin.after = "c1"
    /\ DOMAIN qout.query = {"pageSize", "pageToken"}
    /\ qout.query["pageSize"] = <<(<<"5", "0">>)>>

(***************************************************************************)
(* C8: List of each resource type returns an error, no resources and the   *)
(* empty token when the fetch fails or a resource cannot be built (or the  *)
(* token cannot be parsed or made); otherwise it returns one resource per  *)
(* fetched item, of its resource type, in the order of the items.          *)
(***************************************************************************)
ItemId(rtype, item) == IF rtype = "portfolio" THEN item.Id ELSE item

ListFailed ==
    \/ ret = NotCalled
    \/ ret.err # NoErr
    \/ fault = -1
    \/ fault \in 1..Len(ret.items)

C8_ListAllOrNothing ==
    pc = "done" =>
        IF ListFailed
        THEN /\ listRet.err # NoErr
             /\ listRet.resources = <<>>
             /\ listRet.token = EmptyToken
        ELSE /\ listRet.err = NoErr
             /\ Len(listRet.resources) = Len(ret.items)
             /\ \A k \in 1..Len(ret.items) :
                  /\ listRet.resources[k].rtype = call.rtype
                  /\ listRet.resources[k].id = ItemId(call.rtype, ret.items[k])

\* The second of two fetched items could not be made a resource.
C8_Witness ==
    /\ pc = "done"
    /\ ret # NotCalled
    /\ ret.err = NoErr
    /\ Len(ret.items) = 2
    /\ fault = 2
    /\ listRet.err # NoErr
    /\ listRet.resources = <<>>

(***************************************************************************)
(* C9: when GetPortfolios succeeds, the nested fetches sent for each       *)
(* portfolio are one per page of its collection - the first page and one   *)
(* more for every cursor that led on - none sent again right after         *)
(* itself; all nested fetches of the call are those of its portfolios; and *)
(* each issuer list is as long as the issuers of its pages together.       *)
(***************************************************************************)
LeadsOn(e) == Answered(e.resp) /\ e.resp.next # "" /\ e.resp.next # e.after

RECURSIVE SumFetches(_, _)
SumFetches(l, portfolios) ==
    IF portfolios = <<>> THEN 0
    ELSE Len(InnerOf(l, Head(portfolios).Id)) + SumFetches(l, Tail(portfolios))

C10_Order ==
    (call.rtype = "portfolio" /\ log # <<>>) =>
        /\ log[1].ev = "req" /\ log[1].url = "portfolios"
        /\ \A k \in 2..Len(log) :
             /\ log[k].ev = "req" => log[k].url = "portfolio_issuers"
             /\ \A j \in 2..(k - 1) :
                  /\ log[j].pid <= log[k].pid
                  /\ log[j].pid < log[k].pid
                       => \E m \in j..(k - 1) : log[m] = Assignment(log[j].pid)
             /\ log[k].ev = "assign" =>
                  /\ log[k - 1].ev = "req"
                  /\ log[k - 1].pid = log[k].pid
                  /\ log[k - 1].result = Result(log[k - 1].resp.items, "", NoErr)
                  /\ \A j \in (k + 1)..Len(log) : log[j].pid > log[k].pid
        /\ pc = "drain" =>
             \A j \in 1..Len(page) :
                 /\ j < idx => Cardinality(AssignmentsOf(log, page[j].Id)) = 1
                 /\ j >= idx => /\ AssignmentsOf(log, page[j].Id) = {}
                                /\ page[j].Issuers = log[1].resp.items[j].Issuers
        /\ PortfoliosOk =>
             /\ \A i \in 1..Len(ret.items) :
                  Cardinality(AssignmentsOf(log, ret.items[i].Id)) = 1
             /\ ret.items # <<>> => log[Len(log)] = Assignment(ret.items[Len(ret.items)].Id)

\* Two portfolios, the first drained in two fetches, the second in one.
C10_Witness ==
    /\ PortfoliosOk
    /\ Len(log) = 6
    /\ log[2].pid = 1 /\ log[3].pid = 1 /\ log[3].ev = "req"
    /\ log[4] = Assignment(1)
    /\ log[5].pid = 2 /\ log[5].ev = "req"
    /\ log[6] = Assignment(2)

IsInner(e) == e.ev = "req" /\ e.url = "portfolio_issuers"

C12_IndependentStreams ==
    (call.rtype = "portfolio" /\ log # <<>>) =>
        /\ \A k \in 2..Len(log) :
             IsInner(log[k]) =>
                 log[k].after = IF IsInner(log[k - 1]) THEN log[k - 1].resp.next ELSE ""
        /\ pc = "drain" =>
             /\ outerNext = log[1].resp.next
             /\ call.after = log[1].after
             /\ next = IF IsInner(log[Len(log)]) THEN log[Len(log)].resp.next ELSE ""
        /\ PortfoliosOk => ret.next = GuardedCursor(log[1].after, log[1].resp.next)

\* Asked with "c1" and answered "c2"; the first portfolio's drain went
\* through "c1", the second one's started from the empty cursor all the same.
C12_Witness ==
    /\ PortfoliosOk
    /\ call.after = "c1"
    /\ ret.next = "c2"
    /\ Len(log) = 6
    /\ log[2].resp.next = "c1"
    /\ log[3].after = "c1"
    /\ log[5].pid = 2
    /\ log[5].after = ""

(***************************************************************************)
(* C13: the aggregated issuer list survives the profile: Grants looks up   *)
(* exactly the ids of the portfolio's issuers, in order, and makes one     *)
(* member grant per id; a portfolio without issuers gives no lookup and no *)
(* grant.                                                                  *)
(***************************************************************************)
IssuerIdsOf(portfolio) == [k \in 1..Len(portfolio.Issuers) |-> Itoa(portfolio.Issuers[k])]

IsPrefix(a, b) == Len(a) <= Len(b) /\ a = SubSeq(b, 1, Len(a))

C13_GrantsRoundTrip ==
    gr.pc \in {"loop", "done"} =>
        /\ IsPrefix(gr.lookups, IssuerIdsOf(gr.portfolio))
        /\ gr.portfolio.Issuers = <<>> => gr.lookups = <<>> /\ gr.grants = <<>>
        /\ (gr.pc = "done" /\ gr.err = NoErr) =>
             /\ gr.lookups = IssuerIdsOf(gr.portfolio)
             /\ Len(gr.grants) = Len(gr.portfolio.Issuers)
             /\ \A k \in 1..Len(gr.grants) :
                  gr.grants[k] = [resource |-> gr.portfolio.Id, entitlement |-> "member",
                                  principal |-> IssuerIdsOf(gr.portfolio)[k]]

\* The part of C13 that the code keeps: a portfolio with issuers.
C13_NonEmptyRoundTrip == gr.portfolio.Issuers # <<>> => C13_GrantsRoundTrip

\* Three issuers, one of them with a two-digit id, all looked up and granted.
C13_NonEmptyWitness ==
    /\ gr.pc = "done"
    /\ gr.err = NoErr
    /\ Len(gr.portfolio.Issuers) = 3
    /\ \E k \in 1..3 : Len(gr.lookups[k]) = 2
    /\ Len(gr.grants) = 3

(***************************************************************************)
(* C14 as stated: a GetPortfolios call that has started its nested fetches *)
(* always eventually returns, whatever cursors the service answers, a      *)
(* service alternating between distinct non-empty cursors included.        *)
(***************************************************************************)
C14_AlwaysReturns == (pc = "drain") ~> (pc = "done")

\* The latest request is a nested fetch whose answer names a further page: a success
\* with a non-empty cursor other than the one requested.
LatestLeadsOn == log # <<>> /\ IsInner(log[Len(log)]) /\ LeadsOn(log[Len(log)])

(***************************************************************************)
(* C14, amended: a GetPortfolios call returns unless, from some nested     *)
(* fetch on, every answer is a success with a non-empty cursor different   *)
(* from the one requested; a call that never returns is one the service    *)
(* leads on for ever.                                                      *)
(***************************************************************************)
C14_ReturnsUnlessLedOn == <>[](pc = "drain") => <>[]LatestLeadsOn

\* The service alternates: it had answered "c2", and asked with "c2" it answers "c1";
\* the drain is still running and asks with "c1" next.
C14_Witness ==
    /\ pc = "drain"
    /\ Len(log) = 2
    /\ IsInner(log[2])
    /\ log[2].after = "c2"
    /\ log[2].resp.next = "c1"
    /\ LeadsOn(log[2])
    /\ next = "c1"

====
